---------------------------- MODULE Spec2Model ----------------------------
(***************************************************************************)
(* Public-key recovery from an ECDSA signature, gossip/ECDSA/ECDSARecover. *)
(*                                                                         *)
(* One behaviour is one call of one of the three entry points:             *)
(*   recoverPubKeyFromSig(Integer e, Integer r, Integer s, int yBit)       *)
(*   recoverPubKeyFromSig(string msgHash, string sig_r, string sig_s, int) *)
(*   recoverPubKeyFromSig_Base32(string, string, string, int)              *)
(* The call is stepped statement group by statement group; a throw ends it *)
(* in pc = "failed", a return in pc = "done".                              *)
(*                                                                         *)
(* The curve is y^2 = x^3 + 7 as in the source, over a field small enough  *)
(* to enumerate: p = 43, group order n = 31 (prime, cofactor 1, n < p,     *)
(* p = 3 mod 4), the same shape as secp256k1.  The 32-byte buffer and the  *)
(* 256-bit digest width are scaled to 2 bytes and 16 bits.                 *)
(***************************************************************************)
EXTENDS Integers, Sequences, FiniteSets

VARIABLES entry,      \* which entry point was called
          msgHash,    \* textual / Base32 argument (sequence of characters)
          sig_r,      \* textual / Base32 argument
          sig_s,      \* textual / Base32 argument
          yBit,       \* int yBit
          tmp,        \* byte tmp[32] of recoverPubKeyFromSig_Base32
          e, r, s,    \* Integer e, r, s
          pc,         \* position in the call
          i,          \* cofactor loop counter
          R,          \* ECPPoint R
          Q,          \* ECPPoint Q
          err,        \* kind of the exception thrown, "none" while running
          msg,        \* which throw statement raised it
          result,     \* the returned string
          stages,     \* history: pipeline stages entered, in order
          iters       \* history: cofactor loop iterations executed

vars == <<entry, msgHash, sig_r, sig_s, yBit, tmp, e, r, s, pc, i, R, Q,
          err, msg, result, stages, iters>>

-----------------------------------------------------------------------------
(* Curve parameters (tmp.GetGroupParameters() in the source).              *)

h == 1
a == 0
b == 7
p == 43
n == 31
Gx == 2
Gy == 12

(* Widths of the source, scaled with the field.                            *)
FieldBytes == 2
DigestBits == 16
HexWidth == 64

(* Bounds of the inputs explored.                                          *)
MaxE == 3
Slack == 1
YBitSlack == 1

-----------------------------------------------------------------------------
(* Big-integer arithmetic of the provider.                                 *)

RECURSIVE Pow2(_)
Pow2(k) == IF k = 0 THEN 1 ELSE 2 * Pow2(k - 1)

RECURSIVE BitCount(_)
BitCount(v) == IF v = 0 THEN 0 ELSE 1 + BitCount(v \div 2)

Abs(v) == IF v < 0 THEN -v ELSE v

\* Integer % Integer on a possibly negative left operand, reduced to [0, m).
Mod(v, m) == ((v % m) + m) % m

\* int % int of C++: the remainder takes the sign of the dividend.
CRem(v, m) == IF v >= 0 THEN v % m ELSE -((-v) % m)

\* Integer::InverseMod: the inverse, or 0 when there is none.
InverseMod(v, m) ==
    LET vv == Mod(v, m)
    IN  IF \E t \in 1..(m - 1) : (vv * t) % m = 1
        THEN CHOOSE t \in 1..(m - 1) : (vv * t) % m = 1
        ELSE 0

RECURSIVE a_exp_b_mod_c(_, _, _)
a_exp_b_mod_c(x, ex, m) ==
    IF ex = 0 THEN 1 % m
    ELSE LET half == a_exp_b_mod_c(x, ex \div 2, m)
             sq   == (half * half) % m
         IN  IF ex % 2 = 1 THEN (sq * (x % m)) % m ELSE sq

a_times_b_mod_c(x, y, m) == (x * y) % m

-----------------------------------------------------------------------------
(* Curve points and the group law of ECP.                                  *)

Point(x, y) == [identity |-> FALSE, x |-> x, y |-> y]

Identity == [identity |-> TRUE, x |-> 0, y |-> 0]

G == Point(Gx, Gy)

VerifyPoint(P) ==
    \/ P.identity
    \/ /\ P.x >= 0 /\ P.x < p /\ P.y >= 0 /\ P.y < p
       /\ Mod((P.x * P.x + a) * P.x + b - P.y * P.y, p) = 0

Inverse(P) == IF P.identity THEN P ELSE Point(P.x, Mod(-P.y, p))

Double(P) ==
    IF P.identity \/ P.y = 0 THEN Identity
    ELSE LET t  == Mod((3 * P.x * P.x + a) * InverseMod(2 * P.y, p), p)
             x3 == Mod(t * t - 2 * P.x, p)
         IN  Point(x3, Mod(t * (P.x - x3) - P.y, p))

Add(P, S) ==
    IF P.identity THEN S
    ELSE IF S.identity THEN P
    ELSE IF P.x = S.x THEN (IF P.y = S.y THEN Double(P) ELSE Identity)
    ELSE LET t  == Mod((S.y - P.y) * InverseMod(S.x - P.x, p), p)
             x3 == Mod(t * t - P.x - S.x, p)
         IN  Point(x3, Mod(t * (P.x - x3) - P.y, p))

Subtract(P, S) == Add(P, Inverse(S))

RECURSIVE Multiply(_, _)
Multiply(k, P) ==
    IF k = 0 THEN Identity
    ELSE LET half == Multiply(k \div 2, P)
             dbl  == Double(half)
         IN  IF k % 2 = 1 THEN Add(dbl, P) ELSE dbl


-----------------------------------------------------------------------------
(* Textual big integers: the Integer constructor taking a C string.        *)

Digits == <<"0", "1", "2", "3", "4", "5", "6", "7", "8", "9",
            "a", "b", "c", "d", "e", "f">>

\* The value of a character as a digit, 16 for a character that is none.
DigitValue(c) ==
    IF \E k \in 1..16 : Digits[k] = c
    THEN (CHOOSE k \in 1..16 : Digits[k] = c) - 1
    ELSE 16

\* The radix is read off the last character; characters that are no digit
\* of that radix are skipped; a leading '-' negates.
Radix(str) ==
    IF Len(str) = 0 THEN 10
    ELSE IF str[Len(str)] = "h" THEN 16
    ELSE IF str[Len(str)] = "o" THEN 8
    ELSE IF str[Len(str)] = "b" THEN 2
    ELSE 10

RECURSIVE ParseDigits(_, _, _)
ParseDigits(str, radix, acc) ==
    IF Len(str) = 0 THEN acc
    ELSE LET d == DigitValue(Head(str))
         IN  ParseDigits(Tail(str), radix,
                         IF d < radix THEN acc * radix + d ELSE acc)

StringToInteger(str) ==
    IF Len(str) = 0 THEN 0
    ELSE LET v == ParseDigits(str, Radix(str), 0)
         IN  IF Head(str) = "-" THEN -v ELSE v

-----------------------------------------------------------------------------
(* Base32Decoder: five bits a character, whole bytes out, the rest dropped. *)

Base32Alphabet == <<"A", "B", "C", "D", "E", "F", "G", "H", "I", "J", "K",
                    "M", "N", "P", "Q", "R", "S", "T", "U", "V", "W", "X",
                    "Y", "Z", "2", "3", "4", "5", "6", "7", "8", "9">>

RECURSIVE Base32Bits(_)
Base32Bits(str) ==
    IF Len(str) = 0 THEN <<>>
    ELSE LET c == Head(str)
         IN  IF \E k \in 1..32 : Base32Alphabet[k] = c
             THEN LET v == (CHOOSE k \in 1..32 : Base32Alphabet[k] = c) - 1
                  IN  <<(v \div 16) % 2, (v \div 8) % 2, (v \div 4) % 2,
                        (v \div 2) % 2, v % 2>> \o Base32Bits(Tail(str))
             ELSE Base32Bits(Tail(str))

RECURSIVE BitsToBytes(_)
BitsToBytes(bits) ==
    IF Len(bits) < 8 THEN <<>>
    ELSE <<128 * bits[1] + 64 * bits[2] + 32 * bits[3] + 16 * bits[4]
           + 8 * bits[5] + 4 * bits[6] + 2 * bits[7] + bits[8]>>
         \o BitsToBytes(SubSeq(bits, 9, Len(bits)))

Base32Decode(str) == BitsToBytes(Base32Bits(str))

\* decoder.Get(tmp, 32): the first bytes of the buffer are overwritten by as
\* many decoded bytes as there are, the others keep what they held.
Get(buf, bytes) ==
    [k \in 1..Len(buf) |-> IF k <= Len(bytes) THEN bytes[k] ELSE buf[k]]

\* Integer::Decode(tmp, 32): big-endian, unsigned.
RECURSIVE Decode(_)
Decode(buf) ==
    IF Len(buf) = 0 THEN 0
    ELSE 256 * Decode(SubSeq(buf, 1, Len(buf) - 1)) + buf[Len(buf)]

\* if (size && size <= SIZE_MAX)
SizeOk(size) == size # 0

-----------------------------------------------------------------------------
(* The statements of recoverPubKeyFromSig(Integer, Integer, Integer, int). *)

\* if (r > n || r < 0)
RCheckFails(rr) == rr > n \/ rr < 0

\* if (s > n || s < 0)
SCheckFails(ss) == ss > n \/ ss < 0

\* if (e.BitCount() > 256 || e < 0)
ECheckFails(ee) == BitCount(Abs(ee)) > DigestBits \/ ee < 0

\* The message of the first input check that throws, "none" when none does.
InputError(ee, rr, ss) ==
    IF RCheckFails(rr) THEN "r exceeds group size"
    ELSE IF SCheckFails(ss) THEN "s exceeds group size"
    ELSE IF ECheckFails(ee) THEN "Message hash value out of range"
    ELSE "none"

\* Slip: the root found is never exchanged for the other one.
NeedsFlip_Never(yb, y) == FALSE

\* Slip: the whole recovery id, not its low bit, is compared with y's parity.
NeedsFlip_WholeId(yb, y) == yb # y % 2

\* if ((yBit % 2) ^ (y % 2)): yBit % 2 is an int in {-1, 0, 1}, y % 2 a word
\* in {0, 1}; the exclusive or is nonzero exactly when the two differ.
NeedsFlip(yb, y) == CRem(yb, 2) # y % 2

\* One candidate of the cofactor loop: the point tried for x.
Candidate(x, yb) ==
    LET ysq == (x * x * x + 7) % p
        ex  == (p + 1) \div 4
        y0  == a_exp_b_mod_c(ysq, ex, p)
        y   == IF NeedsFlip(yb, y0) THEN p - y0 ELSE y0
    IN  Point(x, y)

\* for (int i = 0; i < (h + 1); i++)
LoopContinues(k) == k < h + 1

\* if (x > p)
ExceedsField(x) == x > p

\* The whole loop from iteration k on: whether it threw, and R after it.
RECURSIVE CofactorSearch(_, _, _, _)
CofactorSearch(rr, yb, k, Rk) ==
    IF ~LoopContinues(k) THEN [thrown |-> FALSE, R |-> Rk]
    ELSE IF ExceedsField(rr + k * n) THEN [thrown |-> TRUE, R |-> Rk]
    ELSE LET c == Candidate(rr + k * n, yb)
         IN  IF VerifyPoint(c) THEN [thrown |-> FALSE, R |-> c]
             ELSE CofactorSearch(rr, yb, k + 1, c)

\* ECPPoint::operator==
PointEq(P, S) ==
    \/ P.identity /\ S.identity
    \/ ~P.identity /\ ~S.identity /\ P.x = S.x /\ P.y = S.y

\* Q = r^-1 (sR - eG)
ComputeQ(ee, rr, ss, Rr) ==
    LET sR    == Multiply(ss, Rr)
        eG    == Multiply(ee, G)
        sR_eG == Subtract(sR, eG)
        rInv  == InverseMod(rr, n)
    IN  Multiply(rInv, sR_eG)

\* Slip: only the on-curve test is kept, which the identity passes.
FailsBasicCriteria_OnCurveOnly(Qq) == ~VerifyPoint(Qq)

\* Slip: Q is multiplied by the group order n instead of the field modulus p.
FailsBasicCriteria_GroupOrder(Qq) ==
    \/ PointEq(Qq, Identity)
    \/ PointEq(Multiply(n, Qq), Identity)
    \/ ~VerifyPoint(Qq)

\* if ((Q == Identity) || (Multiply(p, Q) == Identity) || (!VerifyPoint(Q)))
FailsBasicCriteria(Qq) ==
    \/ PointEq(Qq, Identity)
    \/ PointEq(Multiply(p, Qq), Identity)
    \/ ~VerifyPoint(Qq)

\* X1 = u1 G + u2 Q
ComputeX1(ee, rr, ss, Qq) ==
    LET w  == InverseMod(ss, n)
        u1 == a_times_b_mod_c(ee, w, n)
        u2 == a_times_b_mod_c(rr, w, n)
    IN  Add(Multiply(u1, G), Multiply(u2, Qq))

\* Slip: the comparison of r with x1 is dropped.
SigMismatch_Dropped(rr, X1) == FALSE

\* if (r != x1), with x1 = X1.x % n
SigMismatch(rr, X1) == rr # X1.x % n

\* std::hex << Integer: the digits, most significant first, then "h".
RECURSIVE HexDigits(_)
HexDigits(v) ==
    IF v = 0 THEN <<>> ELSE Append(HexDigits(v \div 16), Digits[(v % 16) + 1])

HexStream(v) ==
    (IF v < 0 THEN <<"-">> ELSE <<>>)
    \o (IF v = 0 THEN <<"0">> ELSE HexDigits(Abs(v))) \o <<"h">>

\* xstr.resize(xstr.size() - 1)
StripSuffix(str) == SubSeq(str, 1, Len(str) - 1)

\* std::setw(64) << std::setfill('0')
Pad(str) ==
    IF Len(str) >= HexWidth THEN str
    ELSE [k \in 1..HexWidth |->
            IF k <= HexWidth - Len(str) THEN "0"
            ELSE str[k - (HexWidth - Len(str))]]

Serialize(Qq) ==
    Pad(StripSuffix(HexStream(Qq.x))) \o Pad(StripSuffix(HexStream(Qq.y)))

Thrown(kind, text) == [err |-> kind, msg |-> text, result |-> <<>>]

Returned(str) == [err |-> "none", msg |-> "none", result |-> str]

\* The call as a function of its arguments.
recoverPubKeyFromSig(ee, rr, ss, yb) ==
    IF InputError(ee, rr, ss) # "none"
    THEN Thrown("domain_error", InputError(ee, rr, ss))
    ELSE LET found == CofactorSearch(rr, yb, 0, Point(1, 1))
         IN
         IF found.thrown
         THEN Thrown("domain_error", "Recovered R.x exceeds field modulus")
         ELSE IF ~VerifyPoint(found.R)
         THEN Thrown("domain_error", "Computed point is not on curve")
         ELSE LET Qq == ComputeQ(ee, rr, ss, found.R)
                  X1 == ComputeX1(ee, rr, ss, Qq)
              IN
              IF FailsBasicCriteria(Qq)
              THEN Thrown("domain_error", "Calculated Q fails basic criteria")
              ELSE IF ~VerifyPoint(X1)
              THEN Thrown("domain_error", "x1 did not verify as a point on the curve")
              ELSE IF SigMismatch(rr, X1)
              THEN Thrown("domain_error", "Recovered key fails to verify signature")
              ELSE Returned(Serialize(Qq))

-----------------------------------------------------------------------------
(* The arguments explored.                                                 *)

YBits == (0 - YBitSlack)..(3 + YBitSlack)

Scalars == (0 - Slack)..(n + Slack)

Hashes == ((0 - Slack)..MaxE) \cup {Pow2(DigestBits) - 1, Pow2(DigestBits)}

\* "", "2", "12", "1fh" (= n), "-7"
TextArgs == {<<>>, <<"2">>, <<"1", "2">>, <<"1", "f", "h">>, <<"-", "7">>}

\* Base32 of no byte, of one byte (1), of two bytes (1 and 12), of three.
Base32Args == {<<>>, <<"A", "H">>, <<"A", "A", "A", "6">>,
               <<"A", "A", "G", "A">>, <<"A", "A", "A", "6", "A">>}

\* What an uninitialised byte of tmp may hold.
StackBytes == {0, 255}

ZeroBuffer == [k \in 1..FieldBytes |-> 0]

InitLocals ==
    /\ i = 0
    /\ R = Point(1, 1)
    /\ Q = Identity
    /\ err = "none"
    /\ msg = "none"
    /\ result = <<>>
    /\ stages = <<>>
    /\ iters = 0

InitInteger ==
    /\ entry = "integer"
    /\ msgHash = <<>> /\ sig_r = <<>> /\ sig_s = <<>>
    /\ tmp = ZeroBuffer
    /\ e \in Hashes /\ r \in Scalars /\ s \in Scalars
    /\ pc = "validate"

InitText ==
    /\ entry = "text"
    /\ msgHash \in TextArgs /\ sig_r \in TextArgs /\ sig_s \in TextArgs
    /\ tmp = ZeroBuffer
    /\ e = 0 /\ r = 0 /\ s = 0
    /\ pc = "text"

InitBase32 ==
    /\ entry = "base32"
    /\ msgHash \in Base32Args /\ sig_r \in Base32Args /\ sig_s \in Base32Args
    /\ tmp \in [1..FieldBytes -> StackBytes]
    /\ e = 0 /\ r = 0 /\ s = 0
    /\ pc = "decode_e"

Init ==
    /\ yBit \in YBits
    /\ InitLocals
    /\ (InitInteger \/ InitText \/ InitBase32)

-----------------------------------------------------------------------------
(* Steps of a call.                                                        *)

Throw(kind, text) ==
    /\ pc' = "failed"
    /\ err' = kind
    /\ msg' = text

\* recoverPubKeyFromSig(string, string, string, int): the argument check and
\* the three Integer constructions.
TextEntry ==
    /\ pc = "text"
    /\ IF Len(msgHash) = 0 \/ Len(sig_r) = 0 \/ Len(sig_s) = 0
          \/ yBit > 3 \/ yBit < 0
       THEN /\ Throw("invalid_argument", "Empty string or invalid yBit value")
            /\ UNCHANGED <<e, r, s>>
       ELSE /\ e' = StringToInteger(msgHash)
            /\ r' = StringToInteger(sig_r)
            /\ s' = StringToInteger(sig_s)
            /\ pc' = "validate"
            /\ UNCHANGED <<err, msg>>
    /\ UNCHANGED <<entry, msgHash, sig_r, sig_s, yBit, tmp, i, R, Q, result,
                   stages, iters>>

\* recoverPubKeyFromSig_Base32: one decoder block.
Base32Field(arg, text, next) ==
    LET bytes == Base32Decode(arg)
        size  == Len(bytes)
    IN  IF SizeOk(size)
        THEN /\ tmp' = Get(tmp, bytes)
             /\ pc' = next
             /\ UNCHANGED <<err, msg>>
        ELSE /\ Throw("invalid_argument", text)
             /\ UNCHANGED tmp

DecodeHash ==
    /\ pc = "decode_e"
    /\ Base32Field(msgHash, "Invalid sized msg hash", "decode_r")
    /\ e' = IF pc' = "failed" THEN e ELSE Decode(tmp')
    /\ UNCHANGED <<entry, msgHash, sig_r, sig_s, yBit, r, s, i, R, Q, result,
                   stages, iters>>

DecodeR ==
    /\ pc = "decode_r"
    /\ Base32Field(sig_r, "Invalid sized sig_r", "decode_s")
    /\ r' = IF pc' = "failed" THEN r ELSE Decode(tmp')
    /\ UNCHANGED <<entry, msgHash, sig_r, sig_s, yBit, e, s, i, R, Q, result,
                   stages, iters>>

DecodeS ==
    /\ pc = "decode_s"
    /\ Base32Field(sig_s, "Invalid sized sig_s", "validate")
    /\ s' = IF pc' = "failed" THEN s ELSE Decode(tmp')
    /\ UNCHANGED <<entry, msgHash, sig_r, sig_s, yBit, e, r, i, R, Q, result,
                   stages, iters>>

\* The three input checks.
CheckInputs ==
    /\ pc = "validate"
    /\ stages' = Append(stages, "Validate")
    /\ IF InputError(e, r, s) # "none"
       THEN Throw("domain_error", InputError(e, r, s))
       ELSE pc' = "loop" /\ UNCHANGED <<err, msg>>
    /\ UNCHANGED <<entry, msgHash, sig_r, sig_s, yBit, tmp, e, r, s, i, R, Q,
                   result, iters>>

\* One iteration of the cofactor loop, with the loop test that follows it.
CofactorLoop ==
    /\ pc = "loop"
    /\ LoopContinues(i)
    /\ stages' = IF i = 0 THEN Append(stages, "Recover") ELSE stages
    /\ iters' = iters + 1
    /\ IF ExceedsField(r + i * n)
       THEN /\ Throw("domain_error", "Recovered R.x exceeds field modulus")
            /\ UNCHANGED <<i, R>>
       ELSE /\ R' = Candidate(r + i * n, yBit)
            /\ IF VerifyPoint(R')
               THEN i' = i /\ pc' = "after_loop"
               ELSE /\ i' = i + 1
                    /\ pc' = IF LoopContinues(i + 1) THEN "loop" ELSE "after_loop"
            /\ UNCHANGED <<err, msg>>
    /\ UNCHANGED <<entry, msgHash, sig_r, sig_s, yBit, tmp, e, r, s, Q, result>>

\* if (!curve.VerifyPoint(R))
CheckR ==
    /\ pc = "after_loop"
    /\ IF ~VerifyPoint(R)
       THEN Throw("domain_error", "Computed point is not on curve")
       ELSE pc' = "derive" /\ UNCHANGED <<err, msg>>
    /\ UNCHANGED <<entry, msgHash, sig_r, sig_s, yBit, tmp, e, r, s, i, R, Q,
                   result, stages, iters>>

\* Q and its check.
DeriveKey ==
    /\ pc = "derive"
    /\ stages' = Append(stages, "Derive")
    /\ Q' = ComputeQ(e, r, s, R)
    /\ IF FailsBasicCriteria(Q')
       THEN Throw("domain_error", "Calculated Q fails basic criteria")
       ELSE pc' = "reverify" /\ UNCHANGED <<err, msg>>
    /\ UNCHANGED <<entry, msgHash, sig_r, sig_s, yBit, tmp, e, r, s, i, R,
                   result, iters>>

\* X1 and its two checks.
VerifySig ==
    /\ pc = "reverify"
    /\ stages' = Append(stages, "Reverify")
    /\ LET X1 == ComputeX1(e, r, s, Q)
       IN  IF ~VerifyPoint(X1)
           THEN Throw("domain_error", "x1 did not verify as a point on the curve")
           ELSE IF SigMismatch(r, X1)
           THEN Throw("domain_error", "Recovered key fails to verify signature")
           ELSE pc' = "encode" /\ UNCHANGED <<err, msg>>
    /\ UNCHANGED <<entry, msgHash, sig_r, sig_s, yBit, tmp, e, r, s, i, R, Q,
                   result, iters>>

\* The hex serialisation and the return.
Encode ==
    /\ pc = "encode"
    /\ stages' = Append(stages, "Encode")
    /\ result' = Serialize(Q)
    /\ pc' = "done"
    /\ UNCHANGED <<entry, msgHash, sig_r, sig_s, yBit, tmp, e, r, s, i, R, Q,
                   err, msg, iters>>

Next ==
    \/ TextEntry
    \/ DecodeHash
    \/ DecodeR
    \/ DecodeS
    \/ CheckInputs
    \/ CofactorLoop
    \/ CheckR
    \/ DeriveKey
    \/ VerifySig
    \/ Encode

Spec == Init /\ [][Next]_vars

-----------------------------------------------------------------------------
(* Vocabulary of the properties.                                           *)

Terminal == pc \in {"done", "failed"}

PipelineStages == <<"Validate", "Recover", "Derive", "Reverify", "Encode">>

Outcome == [err |-> err, msg |-> msg, result |-> result]

\* The Integer overload was entered.
PipelineEntered == stages # <<>>

Entered(stage) == \E k \in 1..Len(stages) : stages[k] = stage

LastStage == stages[Len(stages)]

InputMessages == {"r exceeds group size", "s exceeds group size",
                  "Message hash value out of range"}

\* The stage each throw statement of the Integer overload belongs to.
StageOfMessage(text) ==
    IF text \in InputMessages THEN "Validate"
    ELSE IF text \in {"Recovered R.x exceeds field modulus",
                      "Computed point is not on curve"} THEN "Recover"
    ELSE IF text = "Calculated Q fails basic criteria" THEN "Derive"
    ELSE "Reverify"

IsPrefix(sq, full) ==
    /\ Len(sq) <= Len(full)
    /\ \A k \in 1..Len(sq) : sq[k] = full[k]

\* k G for every scalar k of the subgroup.
GMul == [k \in 0..(n - 1) |-> Multiply(k, G)]

Keys == 1..(n - 1)

\* k^-1 mod n for every nonce k.
KInv == [k \in 1..(n - 1) |-> InverseMod(k, n)]

\* r is the r of nonce k: (k G).x mod n, and not 0.
NonceOf(k) == r # 0 /\ r = GMul[k].x % n

\* (r, s) is the signature private key d makes over e with nonce k.
HonestSig(d, k) ==
    /\ NonceOf(k)
    /\ e >= 0 /\ BitCount(e) <= DigestBits
    /\ s # 0 /\ s = (KInv[k] * ((e + r * d) % n)) % n

\* The recovery id of k G: bit 0 the parity of y, bit 1 whether x >= n.
CorrectId(k) == (GMul[k].y % 2) + (IF GMul[k].x >= n THEN 2 ELSE 0)

\* The id with the parity bit flipped.
Sibling(id) == IF id % 2 = 0 THEN id + 1 ELSE id - 1

\* x is the abscissa of a point of the curve.
OnCurveX(x) ==
    /\ x >= 0 /\ x < p
    /\ \E y \in 0..(p - 1) : (y * y) % p = (x * x * x + 7) % p

OutOfRange ==
    \/ r < 0 \/ r >= n
    \/ s < 0 \/ s >= n
    \/ e < 0 \/ BitCount(Abs(e)) > DigestBits

DecodedSizes ==
    {Len(Base32Decode(msgHash)), Len(Base32Decode(sig_r)),
     Len(Base32Decode(sig_s))}

-----------------------------------------------------------------------------
(* C1: an honest signature with its correct recovery id recovers exactly   *)
(* the encoding of d G, also when (k G).x >= n.                            *)
C1_HonestSigRecoversSigner ==
    (Terminal /\ PipelineEntered) =>
        \A k \in {kk \in Keys : NonceOf(kk)}, d \in Keys :
            (HonestSig(d, k) /\ yBit = CorrectId(k)) =>
                /\ err = "none"
                /\ result = Serialize(GMul[d])

C3_BoundaryScalarsFail ==
    (Terminal /\ PipelineEntered /\ yBit \in 0..3
       /\ (r = 0 \/ r >= n \/ s = 0 \/ s >= n)) =>
        /\ pc = "failed"
        /\ err = "domain_error"
        /\ result = <<>>

C3_Witness ==
    /\ pc = "failed"
    /\ s = n /\ r \in 1..(n - 1) /\ yBit \in 0..3
    /\ msg = "Recovered key fails to verify signature"

(* C4: on every entry point a recovery id outside [0, 3] ends the call in  *)
(* invalid_argument, and no key is returned.                               *)
C4_BadRecoveryIdRejected ==
    (Terminal /\ yBit \notin 0..3) =>
        /\ err = "invalid_argument"
        /\ result = <<>>

(* C5: in the Base32 entry point a field that decodes to a length other    *)
(* than the buffer's ends the call in invalid_argument before the recovery *)
(* pipeline runs.                                                          *)
C5_Base32WrongLengthRejected ==
    (entry = "base32" /\ DecodedSizes # {FieldBytes}) =>
        /\ ~PipelineEntered
        /\ Terminal => err = "invalid_argument"

(* C6: the stages run in the order Validate, Recover, Derive, Reverify,    *)
(* Encode; the first failing stage ends the call with an error and no      *)
(* output; a returned key passed all checks: it is on the curve, is not    *)
(* the point at infinity and satisfies (u1 G + u2 Q).x mod n = r.          *)
C6_PipelineOrder ==
    /\ IsPrefix(stages, PipelineStages)
    /\ (err # "none") = (pc = "failed")
    /\ pc = "failed" => result = <<>>
    /\ (pc = "failed" /\ PipelineEntered) => LastStage = StageOfMessage(msg)
    /\ result # <<>> => pc = "done"
    /\ pc = "done" =>
         /\ stages = PipelineStages
         /\ result = Serialize(Q)
         /\ VerifyPoint(Q) /\ ~Q.identity
         /\ LET w  == InverseMod(s, n)
                u1 == (e * w) % n
                u2 == (r * w) % n
                X  == Add(Multiply(u1, G), Multiply(u2, Q))
            IN  /\ (s * w) % n = 1
                /\ ~X.identity
                /\ X.x % n = r

C6_Witness ==
    /\ pc = "done"
    /\ stages = PipelineStages
    /\ R.x = r + n

(* C7: an out-of-range r, s or digest is rejected by the input checks      *)
(* themselves, before the cofactor loop or any curve arithmetic; r = n and *)
(* s = n in particular.                                                    *)
C7_OutOfRangeFailsInValidation ==
    (PipelineEntered /\ OutOfRange) =>
        /\ stages = <<"Validate">>
        /\ pc = "failed"
        /\ msg \in InputMessages

(* C8: the Key Deriver computes Q = r^-1 (sR - eG) and rejects it exactly  *)
(* when Q is the point at infinity, or n Q is not, or Q is off the curve.  *)
C8_KeyDeriverCriteria ==
    Entered("Derive") =>
        /\ InverseMod(r, n) # 0 =>
             PointEq(Multiply(r, Q), Subtract(Multiply(s, R), Multiply(e, G)))
        /\ InverseMod(r, n) = 0 => Q.identity
        /\ (pc = "failed" /\ LastStage = "Derive")
             = (Q.identity \/ ~Multiply(n, Q).identity \/ ~VerifyPoint(Q))
        /\ Entered("Reverify") =>
             VerifyPoint(Q) /\ ~Q.identity /\ Multiply(n, Q).identity

C8_Witness ==
    /\ pc = "failed"
    /\ msg = "Calculated Q fails basic criteria"
    /\ Q.identity
    /\ r \in 1..(n - 1) /\ s \in 1..(n - 1)

(* C9: the candidate search runs at most h + 1 iterations and ends in one  *)
(* of three ways: R = (r + i n, y) for the smallest i on the curve, y of   *)
(* the parity of the recovery id's low bit; the 'exceeds field modulus'    *)
(* error at the first r + i n > p; the 'not on curve' error when no i in   *)
(* [0, h] is on the curve.  No off-curve point reaches the Key Deriver.    *)
C9_CandidateSearch ==
    /\ iters <= h + 1
    /\ Entered("Derive") =>
         /\ VerifyPoint(R) /\ ~R.identity
         /\ \E k \in 0..h :
               /\ R.x = r + k * n
               /\ OnCurveX(r + k * n)
               /\ \A j \in 0..(k - 1) : ~OnCurveX(r + j * n)
               /\ iters = k + 1
         /\ R.y % 2 = yBit % 2
    /\ (pc = "failed" /\ msg = "Recovered R.x exceeds field modulus") =>
         \E k \in 0..h :
            /\ r + k * n > p
            /\ \A j \in 0..(k - 1) : r + j * n <= p /\ ~OnCurveX(r + j * n)
            /\ iters = k + 1
    /\ (pc = "failed" /\ msg = "Computed point is not on curve") =>
         /\ \A k \in 0..h : r + k * n <= p /\ ~OnCurveX(r + k * n)
         /\ iters = h + 1
    /\ (pc = "failed" /\ PipelineEntered /\ LastStage = "Recover") =>
         msg \in {"Recovered R.x exceeds field modulus",
                  "Computed point is not on curve"}

(* C10: the outcome depends on the recovery id only through its parity:    *)
(* ids in [0, 3] with the same low bit give the same key or the same       *)
(* failure, and the high bit never selects between r and r + n.            *)
C10_OnlyParityMatters ==
    (Terminal /\ yBit \in 0..3) =>
        /\ PipelineEntered =>
             \A id \in 0..3 :
                id % 2 = yBit % 2 =>
                   recoverPubKeyFromSig(e, r, s, id) = Outcome
        /\ ~PipelineEntered =>
             \/ entry = "text" /\ <<>> \in {msgHash, sig_r, sig_s}
             \/ entry = "base32" /\ 0 \in DecodedSizes

C10_Witness ==
    /\ pc = "done"
    /\ yBit \in {2, 3}
    /\ R.x = r
    /\ OnCurveX(r + n)

=============================================================================
